---- MODULE Spec2Model ----
(***************************************************************************)
(* Model of src/main.py: the word-substitution text compressor.            *)
(*                                                                         *)
(* A text is a sequence of characters, a token a sequence of characters,   *)
(* a file name a sequence of name atoms ("a", ".", "txt", "_", "1").       *)
(* The file system is a function from the names that exist to contents.    *)
(* A content is plain text or a JSON document; the texts of the model are  *)
(* written over an alphabet without JSON syntax characters, and            *)
(* compress_file is applied to the plain-text files.                       *)
(***************************************************************************)
EXTENDS Integers, Sequences, FiniteSets, TLC

VARIABLES files, last, made

vars == <<files, last, made>>

\* ------------------------------------------------------------------ bounds
MaxLen == 4
MaxFiles == 3
MaxData == 2

\* ---------------------------------------------------------------- alphabet
Space == {" ", "\n"}
Alphabet == {"a", "1"} \cup Space

IsSpace(c) == c \in Space

SeqsUpTo(S, n) == UNION {[1..k -> S] : k \in 0..n}

the == <<"t", "h", "e">>
cat == <<"c", "a", "t">>
sat == <<"s", "a", "t">>
on == <<"o", "n">>
mat == <<"m", "a", "t">>
ran == <<"r", "a", "n">>
sp == <<" ">>

\* "the cat sat on the mat the cat ran"
Scenario ==
    the \o sp \o cat \o sp \o sat \o sp \o on \o sp \o the \o sp \o mat
        \o sp \o the \o sp \o cat \o sp \o ran

\* Longer inputs next to the exhaustive short ones: long tokens, repeated
\* long tokens, ties on (frequency, length), digit tokens beside identifiers.
SampleTexts ==
    { Scenario,
      <<"a","a","a","a"," ","1","1","1","1","1">>,
      <<"1","1","1","1","1"," ","a","a","a","a">>,
      <<"a","1","a","1"," ","1","a","1","a">>,
      <<"1"," ","a"," ","1"," ","a">>,
      <<"a","a","a","a","\n","a","a","a","a"," ","1">>,
      <<" ","1"," ","\n","1","\n"," ">>,
      <<"a","a","a","a"," ","1">>,
      <<"a","a","a","a"," ","1"," ","1","\n">> }

Texts == SeqsUpTo(Alphabet, MaxLen) \cup SampleTexts

\* -------------------------------------------------------------- file names
DotTxt == <<".", "txt">>
DotJson == <<".", "json">>
DotMd == <<".", "md">>

Digit == <<"0", "1", "2", "3", "4", "5", "6", "7", "8", "9">>

\* str(counter) of the f-string at line 14
RECURSIVE Str(_)
Str(k) == IF k < 10 THEN <<Digit[k + 1]>>
          ELSE Str(k \div 10) \o <<Digit[(k % 10) + 1]>>

\* 1-based index of the last "." of a name, 0 when there is none (str.rfind)
RFindDot(name) ==
    LET dots == {i \in 1..Len(name) : name[i] = "."}
    IN IF dots = {} THEN 0 ELSE CHOOSE i \in dots : \A j \in dots : j <= i

\* pathlib's PurePath.suffix: the last dot counts unless it leads or ends the name
Suffix(name) ==
    LET i == RFindDot(name)
    IN IF 1 < i /\ i < Len(name) THEN SubSeq(name, i, Len(name)) ELSE <<>>

\* pathlib's PurePath.stem
Stem(name) ==
    LET i == RFindDot(name)
    IN IF 1 < i /\ i < Len(name) THEN SubSeq(name, 1, i - 1) ELSE name

\* the while loop of get_unique_filename, from the given counter on
RECURSIVE UniqueFrom(_, _, _)
UniqueFrom(filepath, counter, existing) ==
    LET new_name == Stem(filepath) \o <<"_">> \o Str(counter) \o Suffix(filepath)
    IN IF new_name \notin existing THEN new_name
       ELSE UniqueFrom(filepath, counter + 1, existing)

\* the name returned without looking whether it exists
UncheckedFilename(filepath, existing) == filepath

get_unique_filename(filepath, existing) ==
    IF filepath \notin existing THEN filepath
    ELSE UniqueFrom(filepath, 1, existing)

\* --------------------------------------------------------------- tokenizer
\* first index >= i of a whitespace character, Len(text) + 1 when none
RECURSIVE NextSpace(_, _)
NextSpace(text, i) ==
    IF i > Len(text) \/ IsSpace(text[i]) THEN i ELSE NextSpace(text, i + 1)

\* first index >= i of a non-whitespace character: the end of the run \s+
RECURSIVE RunEnd(_, _)
RunEnd(text, i) ==
    IF i > Len(text) \/ ~IsSpace(text[i]) THEN i ELSE RunEnd(text, i + 1)

\* re.split(r"(\s+)", text) from position i: the piece before each match,
\* the captured match, and at the end the remainder
RECURSIVE SplitFrom(_, _)
SplitFrom(text, i) ==
    LET s == NextSpace(text, i)
    IN IF s > Len(text) THEN <<SubSeq(text, i, Len(text))>>
       ELSE LET e == RunEnd(text, s)
            IN <<SubSeq(text, i, s - 1), SubSeq(text, s, e - 1)>>
                   \o SplitFrom(text, e)

\* re.split(r"\s+", text), the pattern without its capturing group: the
\* whitespace runs are dropped from the result
SplitNoCapture(text) ==
    LET all == SplitFrom(text, 1)
    IN [i \in 1..((Len(all) + 1) \div 2) |-> all[2 * i - 1]]

re_split(text) == SplitFrom(text, 1)

\* ------------------------------------------------------------------ encode
\* frequency after the first n tokens: the keys in insertion order (a Python
\* dict keeps it) and the count of each
RECURSIVE CountFrequency(_, _)
CountFrequency(tokens, n) ==
    IF n = 0 THEN [keys |-> <<>>, cnt |-> <<>>]
    ELSE LET f == CountFrequency(tokens, n - 1)
             token == tokens[n]
             seen == token \in DOMAIN f.cnt
             got == IF seen THEN f.cnt[token] ELSE 0
         IN [keys |-> IF seen THEN f.keys ELSE Append(f.keys, token),
             cnt |-> [t \in DOMAIN f.cnt \cup {token} |->
                        IF t = token THEN got + 1 ELSE f.cnt[t]]]

\* (-frequency[x], len(x)) < (-frequency[y], len(y))
KeyLess(cnt, x, y) ==
    \/ cnt[x] > cnt[y]
    \/ cnt[x] = cnt[y] /\ Len(x) < Len(y)

\* an unstable sort: x put in front of the elements that compare equal to it
RECURSIVE InsertUnstable(_, _, _)
InsertUnstable(cnt, s, x) ==
    IF s = <<>> THEN <<x>>
    ELSE IF ~KeyLess(cnt, Head(s), x) THEN <<x>> \o s
    ELSE <<Head(s)>> \o InsertUnstable(cnt, Tail(s), x)

\* x put into the sorted s behind every element not greater than it
RECURSIVE InsertSorted(_, _, _)
InsertSorted(cnt, s, x) ==
    IF s = <<>> THEN <<x>>
    ELSE IF KeyLess(cnt, x, Head(s)) THEN <<x>> \o s
    ELSE <<Head(s)>> \o InsertSorted(cnt, Tail(s), x)

\* sorted(keys, key=...) is stable: the first n keys, sorted
RECURSIVE SortedPrefix(_, _, _)
SortedPrefix(cnt, keys, n) ==
    IF n = 0 THEN <<>>
    ELSE InsertSorted(cnt, SortedPrefix(cnt, keys, n - 1), keys[n])

sorted_tokens(frequency) ==
    SortedPrefix(frequency.cnt, frequency.keys, Len(frequency.keys))

\* len(token) >= 3 in place of > 3
WorthFromThree(cnt, token) == cnt[token] > 1 \/ Len(token) >= 3

\* "and" in place of "or"
WorthBoth(cnt, token) == cnt[token] > 1 /\ Len(token) > 3

\* the condition of line 44
Worth(cnt, token) == cnt[token] > 1 \/ Len(token) > 3

\* word_dict[token] = i in place of i + 1
RECURSIVE WordDictFromZero(_, _, _)
WordDictFromZero(cnt, sorted, n) ==
    IF n = 0 THEN <<>>
    ELSE LET d == WordDictFromZero(cnt, sorted, n - 1)
         IN IF cnt[sorted[n]] > 1 \/ Len(sorted[n]) > 3
            THEN Append(d, [k |-> sorted[n], v |-> n - 1])
            ELSE d

\* word_dict after the first n sorted tokens, as its items in insertion order
RECURSIVE WordDict(_, _, _)
WordDict(cnt, sorted, n) ==
    IF n = 0 THEN <<>>
    ELSE LET d == WordDict(cnt, sorted, n - 1)
         IN IF Worth(cnt, sorted[n])
            THEN Append(d, [k |-> sorted[n], v |-> n])
            ELSE d

Keys(items) == {items[i].k : i \in 1..Len(items)}
Values(items) == {items[i].v : i \in 1..Len(items)}

\* d[key] of a dict given by its items (keys are distinct)
Lookup(items, key) ==
    (CHOOSE i \in 1..Len(items) : items[i].k = key)

IntItem(n) == [isInt |-> TRUE, id |-> n, tok |-> <<>>]
StrItem(s) == [isInt |-> FALSE, id |-> 0, tok |-> s]

\* the loop of lines 48-54
DataIds(tokens, word_dict) ==
    [i \in 1..Len(tokens) |->
        IF tokens[i] \in Keys(word_dict)
        THEN IntItem(word_dict[Lookup(word_dict, tokens[i])].v)
        ELSE StrItem(tokens[i])]

\* compressed_data of lines 30-61, a Python dict with its three keys
Encode(text, file_path) ==
    LET tokens == re_split(text)
        frequency == CountFrequency(tokens, Len(tokens))
        sorted == sorted_tokens(frequency)
        word_dict == WordDict(frequency.cnt, sorted, Len(sorted))
    IN [has |-> {"extension", "words", "data"},
        extension |-> Suffix(file_path),
        words |-> word_dict,
        data |-> DataIds(tokens, word_dict)]

\* ------------------------------------------------------------ JSON on disk
\* json.dump of compressed_data: a dict becomes an object whose members keep
\* the insertion order, an int a number, a str a string
JsonDump(py) ==
    [has |-> py.has,
     extension |-> py.extension,
     words |-> [i \in 1..Len(py.words) |->
                  [name |-> py.words[i].k, num |-> py.words[i].v]],
     data |-> [i \in 1..Len(py.data) |->
                 IF py.data[i].isInt
                 THEN [type |-> "number", num |-> py.data[i].id, str |-> <<>>]
                 ELSE [type |-> "string", num |-> 0, str |-> py.data[i].tok]]]

\* json.load: an object becomes a dict in member order, a number an int, a
\* string a str
JsonLoad(doc) ==
    [has |-> doc.has,
     extension |-> doc.extension,
     words |-> [i \in 1..Len(doc.words) |->
                  [k |-> doc.words[i].name, v |-> doc.words[i].num]],
     data |-> [i \in 1..Len(doc.data) |->
                 IF doc.data[i].type = "number"
                 THEN IntItem(doc.data[i].num)
                 ELSE StrItem(doc.data[i].str)]]

NoDoc == [has |-> {}, extension |-> <<>>, words |-> <<>>, data |-> <<>>]

TextFile(chars) == [kind |-> "text", chars |-> chars, doc |-> NoDoc]
JsonFile(doc) == [kind |-> "json", chars |-> <<>>, doc |-> doc]

\* ------------------------------------------------------------------ decode
\* {v: k for k, v in words.items()} over the first n items: a later item
\* with the same value replaces the earlier one
RECURSIVE IdToWord(_, _)
IdToWord(items, n) ==
    IF n = 0 THEN <<>>
    ELSE LET m == IdToWord(items, n - 1)
         IN [v \in DOMAIN m \cup {items[n].v} |->
               IF v = items[n].v THEN items[n].k ELSE m[v]]

\* " ".join in place of "".join
RECURSIVE JoinSpaced(_, _)
JoinSpaced(toks, n) ==
    IF n = 0 THEN <<>>
    ELSE IF n = 1 THEN toks[1]
    ELSE JoinSpaced(toks, n - 1) \o <<" ">> \o toks[n]

\* "".join of the first n tokens
RECURSIVE Join(_, _)
Join(toks, n) == IF n = 0 THEN <<>> ELSE Join(toks, n - 1) \o toks[n]

\* data["words"], data["data"] of lines 97-98: the key whose lookup raises
\* KeyError, "" when both are there; data.get("extension", ...) never raises
MissingOnlyWords(data) == IF "words" \notin data.has THEN "words" ELSE ""

MissingKey(data) ==
    IF "words" \notin data.has THEN "words"
    ELSE IF "data" \notin data.has THEN "data"
    ELSE ""

\* lines 107-112 for one item: id_to_word[item] raises KeyError on an integer
\* that is no key of id_to_word; a string is taken as it is
ResolveOrSkip(id_to_word, item) ==
    IF item.isInt
    THEN [ok |-> TRUE,
          tok |-> IF item.id \in DOMAIN id_to_word THEN id_to_word[item.id]
                  ELSE <<>>]
    ELSE [ok |-> TRUE, tok |-> item.tok]

Resolve(id_to_word, item) ==
    IF item.isInt
    THEN IF item.id \in DOMAIN id_to_word
         THEN [ok |-> TRUE, tok |-> id_to_word[item.id]]
         ELSE [ok |-> FALSE, tok |-> <<>>]
    ELSE [ok |-> TRUE, tok |-> item.tok]

Failed(err) == [ok |-> FALSE, err |-> err, text |-> <<>>, extension |-> <<>>]

\* lines 97-114 on the loaded record: the restored text and the extension,
\* or the exception raised on the way
Decode(data) ==
    IF MissingKey(data) # ""
    THEN Failed("KeyError " \o MissingKey(data))
    ELSE LET words == data.words
             data_ids == data.data
             extension == IF "extension" \in data.has THEN data.extension
                          ELSE DotTxt
             id_to_word == IdToWord(words, Len(words))
             resolved == [i \in 1..Len(data_ids) |->
                            Resolve(id_to_word, data_ids[i])]
             restored_tokens == [i \in 1..Len(data_ids) |-> resolved[i].tok]
         IN IF \E i \in 1..Len(data_ids) : ~resolved[i].ok
            THEN Failed("KeyError id")
            ELSE [ok |-> TRUE, err |-> "",
                  text |-> Join(restored_tokens, Len(restored_tokens)),
                  extension |-> extension]

\* ------------------------------------------------------------------- state
\* open(path, "w") and the write: the named file holds the content afterwards
Write(fs, path, content) ==
    [p \in DOMAIN fs \cup {path} |-> IF p = path THEN content ELSE fs[p]]

NoLast ==
    [op |-> "none", path |-> <<>>, ok |-> FALSE, err |-> "", out |-> <<>>,
     text |-> <<>>, tokens |-> <<>>, data |-> NoDoc, extension |-> <<>>]

\* the records a JSON file of the start state may hold, well formed or not
DocTokens == {<<"a">>, <<"1">>}
DocIds == {1, 7}
DocExtensions == {DotTxt, DotMd}

DocWords ==
    {w \in SeqsUpTo([name : DocTokens, num : DocIds], Cardinality(DocTokens)) :
        \A i, j \in 1..Len(w) : w[i].name = w[j].name => i = j}

DocItems ==
    {[type |-> "number", num |-> n, str |-> <<>>] : n \in DocIds}
        \cup {[type |-> "string", num |-> 0, str |-> t] : t \in DocTokens}

Docs ==
    {[has |-> h,
      extension |-> IF "extension" \in h THEN e ELSE <<>>,
      words |-> IF "words" \in h THEN w ELSE <<>>,
      data |-> IF "data" \in h THEN d ELSE <<>>] :
        h \in SUBSET {"extension", "words", "data"}, e \in DocExtensions,
        w \in DocWords, d \in SeqsUpTo(DocItems, MaxData)}

TextNames == {<<"a">> \o DotTxt, <<"a">> \o DotJson, <<"a">>}
JsonNames == {<<"a">> \o DotJson}

Init ==
    /\ \/ \E n \in TextNames, t \in Texts : files = (n :> TextFile(t))
       \/ \E n \in JsonNames, d \in Docs : files = (n :> JsonFile(d))
    /\ last = NoLast
    /\ made = <<>>

\* compress_file(file_path), lines 21-88, for a plain-text file
compress_file(file_path) ==
    /\ file_path \in DOMAIN files
    /\ files[file_path].kind = "text"
    /\ Cardinality(DOMAIN files) < MaxFiles
    /\ LET text == files[file_path].chars
           compressed_data == Encode(text, file_path)
           output_path == get_unique_filename(Stem(file_path) \o DotJson,
                                              DOMAIN files)
       IN /\ files' = Write(files, output_path, JsonFile(JsonDump(compressed_data)))
          /\ last' = [op |-> "compress", path |-> file_path, ok |-> TRUE,
                      err |-> "", out |-> output_path, text |-> text,
                      tokens |-> re_split(text), data |-> compressed_data,
                      extension |-> compressed_data.extension]
          /\ made' = Write(made, output_path,
                           [text |-> text, extension |-> Suffix(file_path)])

\* decompress_file(json_path), lines 91-122
decompress_file(json_path) ==
    /\ json_path \in DOMAIN files
    /\ IF files[json_path].kind = "text"
       THEN \* json.load raises on a text that is no JSON object
            /\ last' = [NoLast EXCEPT !.op = "decompress", !.path = json_path,
                                      !.err = "JSONDecodeError"]
            /\ UNCHANGED <<files, made>>
       ELSE LET data == JsonLoad(files[json_path].doc)
                r == Decode(data)
                output_path == get_unique_filename(Stem(json_path) \o r.extension,
                                                   DOMAIN files)
            IN IF r.ok
               THEN /\ Cardinality(DOMAIN files) < MaxFiles
                    /\ files' = Write(files, output_path, TextFile(r.text))
                    /\ last' = [op |-> "decompress", path |-> json_path,
                                ok |-> TRUE, err |-> "", out |-> output_path,
                                text |-> r.text, tokens |-> <<>>, data |-> data,
                                extension |-> r.extension]
                    /\ UNCHANGED made
               ELSE /\ last' = [NoLast EXCEPT !.op = "decompress",
                                              !.path = json_path, !.err = r.err,
                                              !.data = data]
                    /\ UNCHANGED <<files, made>>

\* main, lines 137-147: a path that does not exist reaches neither operation
FileNotFound(path) ==
    /\ path \notin DOMAIN files
    /\ last' = [NoLast EXCEPT !.op = "notfound", !.path = path]
    /\ UNCHANGED <<files, made>>

Next ==
    \/ \E p \in DOMAIN files : compress_file(p)
    \/ \E p \in DOMAIN files : decompress_file(p)
    \/ \E p \in TextNames : FileNotFound(p)

Spec == Init /\ [][Next]_vars

\* ------------------------------------------------------------- properties
\* what the formulas below read off a state, computed apart from the model
Occurrences(tokens, t) == Cardinality({i \in 1..Len(tokens) : tokens[i] = t})
Distinct(tokens) == {tokens[i] : i \in 1..Len(tokens)}
FirstIndex(tokens, t) ==
    CHOOSE i \in 1..Len(tokens) :
        tokens[i] = t /\ \A j \in 1..(i - 1) : tokens[j] # t
IdOf(words, t) == words[CHOOSE i \in 1..Len(words) : words[i].k = t].v

RECURSIVE Concat(_)
Concat(toks) == IF toks = <<>> THEN <<>> ELSE Head(toks) \o Concat(Tail(toks))

Compressed == last.op = "compress" /\ last.ok
Decompressed == last.op = "decompress" /\ last.ok

\* C1: round trip. Whenever decompress_file has run on a record that
\* compress_file wrote for a text T read from a file with extension ext, it
\* succeeded, the text it restored and wrote is exactly T, and the extension
\* it recovered is ext.
C1_RoundTrip ==
    (last.op = "decompress" /\ last.path \in DOMAIN made) =>
        /\ last.ok
        /\ last.text = made[last.path].text
        /\ last.extension = made[last.path].extension
        /\ files[last.out] = TextFile(made[last.path].text)
        /\ Suffix(last.out) = made[last.path].extension

\* a restored text with identifiers and literals in its record, and whitespace
C1_Witness ==
    /\ Decompressed
    /\ last.path \in DOMAIN made
    /\ \E i, j \in 1..Len(last.data.data) :
          /\ last.data.data[i].isInt
          /\ ~last.data.data[j].isInt
          /\ last.data.data[j].tok # <<>>
    /\ \E i \in 1..Len(last.text) : IsSpace(last.text[i])
    /\ last.extension = DotTxt

WordPairs(words) == {<<words[i].k, words[i].v>> : i \in 1..Len(words)}

\* C2: as claimed, compressing "the cat sat on the mat the cat ran" gives
\* words = {"the": 1, "cat": 2} and nothing else.
C2_AsClaimed ==
    (Compressed /\ last.text = Scenario) =>
        WordPairs(last.data.words) = {<<the, 1>>, <<cat, 2>>}

\* C2, amended: the whitespace token " " occurs 8 times and ranks first, so
\* words is exactly {" ": 1, "the": 2, "cat": 3}; "sat", "on", "mat" and
\* "ran" are no keys of it.
C2_ScenarioWords ==
    (Compressed /\ last.text = Scenario) =>
        /\ WordPairs(last.data.words) = {<<sp, 1>>, <<the, 2>>, <<cat, 3>>}
        /\ Len(last.data.words) = 3
        /\ {sat, on, mat, ran} \cap Keys(last.data.words) = {}

C2_Witness == Compressed /\ last.text = Scenario /\ last.out = <<"a">> \o DotJson

\* C3: inclusion predicate. In the record compress_file builds, a token value
\* is a key of words iff it occurs more than once or is longer than 3; every
\* occurrence of a key is its identifier in data, every other occurrence the
\* literal string.
C3_Inclusion ==
    Compressed =>
        /\ Keys(last.data.words) \subseteq Distinct(last.tokens)
        /\ \A t \in Distinct(last.tokens) :
              t \in Keys(last.data.words)
                  <=> (Occurrences(last.tokens, t) > 1 \/ Len(t) > 3)
        /\ Len(last.data.data) = Len(last.tokens)
        /\ \A i \in 1..Len(last.tokens) :
              last.data.data[i] =
                  IF last.tokens[i] \in Keys(last.data.words)
                  THEN IntItem(IdOf(last.data.words, last.tokens[i]))
                  ELSE StrItem(last.tokens[i])

\* a key that occurs once (so it is long), a short key that occurs twice, and
\* a literal in data
C3_Witness ==
    /\ Compressed
    /\ \E t \in Keys(last.data.words) : Occurrences(last.tokens, t) = 1
    /\ \E t \in Keys(last.data.words) :
          Occurrences(last.tokens, t) > 1 /\ Len(t) <= 3
    /\ \E i \in 1..Len(last.data.data) :
          ~last.data.data[i].isInt /\ last.data.data[i].tok # <<>>

\* C4: identifiers are unique and in range. The values of words are pairwise
\* distinct integers of 1..N, N the number of distinct token values.
C4_IdsUnique ==
    Compressed =>
        /\ \A i, j \in 1..Len(last.data.words) :
              last.data.words[i].v = last.data.words[j].v => i = j
        /\ \A i \in 1..Len(last.data.words) :
              last.data.words[i].v \in 1..Cardinality(Distinct(last.tokens))

\* two keys, and an identifier skipped between them: the identifiers are not
\* contiguous from 1
C4_Witness ==
    /\ Compressed
    /\ Len(last.data.words) >= 2
    /\ \E n \in 1..Cardinality(Distinct(last.tokens)) :
          /\ n \notin Values(last.data.words)
          /\ \E m \in Values(last.data.words) : m > n

HasUnknownId(doc) ==
    /\ "data" \in doc.has
    /\ \E i \in 1..Len(doc.data) :
          /\ doc.data[i].type = "number"
          /\ doc.data[i].num \notin {doc.words[j].num : j \in 1..Len(doc.words)}

\* C5: unknown identifier. A step that runs decompress_file on a record whose
\* data holds an integer that is no value of words fails as a whole: it
\* reports an error and leaves the files as they are, no output written.
C5_UnknownIdRejected ==
    [][\A p \in DOMAIN files :
          (/\ last'.op = "decompress"
           /\ last'.path = p
           /\ files[p].kind = "json"
           /\ HasUnknownId(files[p].doc))
              => (~last'.ok /\ last'.err # "" /\ last'.out = <<>> /\ files' = files)]_vars

\* id 7 in data, words present without a value 7, a literal before it
C5_Witness ==
    /\ last.op = "decompress"
    /\ ~last.ok
    /\ last.err = "KeyError id"
    /\ last.data.words # <<>>
    /\ Len(last.data.data) = 2
    /\ ~last.data.data[1].isInt
    /\ last.data.data[2] = IntItem(7)
    /\ 7 \notin Values(last.data.words)

HasDuplicateIds(words) ==
    \E i, j \in 1..Len(words) : i # j /\ words[i].v = words[j].v

\* C6: duplicate identifiers. As claimed, decompress_file fails on a record
\* whose words maps two tokens to the same identifier.
C6_DuplicateIdRejected ==
    (last.op = "decompress" /\ HasDuplicateIds(last.data.words)) => ~last.ok

RequiredFields == {"extension", "words", "data"}

\* C7: as claimed, a record that lacks extension, words or data is rejected.
C7_AsClaimed ==
    [][\A p \in DOMAIN files :
          (/\ last'.op = "decompress"
           /\ last'.path = p
           /\ files[p].kind = "json"
           /\ files[p].doc.has # RequiredFields)
              => (~last'.ok /\ files' = files)]_vars

\* C7, amended: a record that lacks words or data is rejected and nothing is
\* written; a record that lacks only extension is decoded like the same
\* record with extension ".txt".
C7_MissingField ==
    [][\A p \in DOMAIN files :
          (/\ last'.op = "decompress"
           /\ last'.path = p
           /\ files[p].kind = "json")
              => /\ ({"words", "data"} \subseteq files[p].doc.has) \/
                        (~last'.ok /\ last'.out = <<>> /\ files' = files)
                 /\ (files[p].doc.has = {"words", "data"}
                        /\ ~HasUnknownId(files[p].doc))
                       => (last'.ok /\ last'.extension = DotTxt
                           /\ Suffix(last'.out) = DotTxt)]_vars

\* a record with data and extension and no words has been refused
C7_Witness ==
    /\ last.op = "decompress"
    /\ ~last.ok
    /\ last.data.has = {"extension", "data"}
    /\ last.data.data # <<>>
    /\ DOMAIN files = JsonNames

\* C8: tokenizer structure. The tokens of a text alternate segments without
\* whitespace (odd positions, possibly empty) with non-empty runs of
\* whitespace (even positions), and their concatenation is the text; for the
\* empty text too.
C8_Tokenizer ==
    Compressed =>
        /\ Len(last.tokens) % 2 = 1
        /\ \A i \in 1..Len(last.tokens) :
              IF i % 2 = 1
              THEN \A j \in 1..Len(last.tokens[i]) : ~IsSpace(last.tokens[i][j])
              ELSE /\ last.tokens[i] # <<>>
                   /\ \A j \in 1..Len(last.tokens[i]) : IsSpace(last.tokens[i][j])
        /\ Concat(last.tokens) = last.text

\* leading whitespace (an empty first segment), a run of two different
\* whitespace characters, and a segment after it
C8_Witness ==
    /\ Compressed
    /\ Len(last.tokens) = 3
    /\ last.tokens[1] = <<>>
    /\ last.tokens[2] = <<" ", "\n">>
    /\ last.tokens[3] # <<>>

\* t ranks before u: more frequent, or as frequent and shorter, or equal in
\* both and first seen earlier
RanksBefore(tokens, t, u) ==
    \/ Occurrences(tokens, t) > Occurrences(tokens, u)
    \/ /\ Occurrences(tokens, t) = Occurrences(tokens, u)
       /\ \/ Len(t) < Len(u)
          \/ Len(t) = Len(u) /\ FirstIndex(tokens, t) < FirstIndex(tokens, u)

\* C9: ranking. The identifier of a key is its position among all distinct
\* tokens ordered by (descending frequency, ascending length), ties broken by
\* first occurrence; so of two keys the one more frequent, or as frequent
\* and shorter, has the smaller identifier.
C9_Ranking ==
    Compressed =>
        /\ \A t \in Keys(last.data.words) :
              IdOf(last.data.words, t) =
                  1 + Cardinality({u \in Distinct(last.tokens) :
                                      RanksBefore(last.tokens, u, t)})
        /\ \A t, u \in Keys(last.data.words) :
              (\/ Occurrences(last.tokens, t) > Occurrences(last.tokens, u)
               \/ /\ Occurrences(last.tokens, t) = Occurrences(last.tokens, u)
                  /\ Len(t) < Len(u))
                 => IdOf(last.data.words, t) < IdOf(last.data.words, u)

\* two keys that tie on frequency and length, and a third that precedes both
C9_Witness ==
    /\ Compressed
    /\ \E t, u, w \in Keys(last.data.words) :
          /\ t # u
          /\ Occurrences(last.tokens, t) = Occurrences(last.tokens, u)
          /\ Len(t) = Len(u)
          /\ Occurrences(last.tokens, w) > Occurrences(last.tokens, t)

\* the name compress_file or decompress_file asks get_unique_filename for
Target(l) ==
    IF l.op = "compress" THEN Stem(l.path) \o DotJson
    ELSE Stem(l.path) \o l.extension

Numbered(target, k) == Stem(target) \o <<"_">> \o Str(k) \o Suffix(target)

\* C10: no overwrite. Every step keeps every file that exists with its
\* content; a step that writes writes one new file, named as the target if
\* that did not exist, else <stem>_<k><suffix> for the least k >= 1 that did
\* not exist.
C10_NoOverwrite ==
    [][/\ \A p \in DOMAIN files : p \in DOMAIN files' /\ files'[p] = files[p]
       /\ files' # files =>
            /\ last'.ok
            /\ last'.out \notin DOMAIN files
            /\ DOMAIN files' = DOMAIN files \cup {last'.out}
            /\ IF Target(last') \notin DOMAIN files
               THEN last'.out = Target(last')
               ELSE \E k \in 1..Cardinality(DOMAIN files) :
                       /\ last'.out = Numbered(Target(last'), k)
                       /\ \A j \in 1..(k - 1) :
                             Numbered(Target(last'), j) \in DOMAIN files]_vars

\* a.json and a_1.json existed, and the record went to a_2.json
C10_Witness ==
    /\ Compressed
    /\ last.out = <<"a", "_", "2">> \o DotJson
    /\ {<<"a">> \o DotJson, <<"a", "_", "1">> \o DotJson} \subseteq DOMAIN files

====
